---------------------------- MODULE Spec2Model ----------------------------
(***************************************************************************)
(* Model of scripts/calculate_rs_from_db.py: the relative-strength scoring *)
(* functions (quarters_perf, strength, relative_strength,                  *)
(* calculate_rs_percentile) and the run of main() over a ticker universe.  *)
(*                                                                         *)
(* Floating-point values are modelled as exact rationals extended with NaN *)
(* and +inf.  Closes are non-negative, so every growth factor is >= 0 and  *)
(* -inf never arises.                                                      *)
(***************************************************************************)
EXTENDS Integers, Sequences, FiniteSets, TLC

VARIABLES
    store,                \* the price library: symbol -> name of its stored data
    pc,                   \* position of main(), or of the function harness
    error,                \* why the run ended: exit message class or exception
    tickers,              \* lib.list_symbols()
    i,                    \* position of the per-ticker loop in tickers
    insufficient_tickers, \* main's pre-check list
    metadata_df,          \* "unread"; "loaded"; else an empty frame, with why
    rs_results,           \* list of (ticker, rs, rs_1m, rs_3m, rs_6m)
    valid_rs_count,
    df_stocks,            \* the result frame: a sequence of rows
    df_columns,           \* the columns df_stocks holds
    reports,              \* files written to output_dir
    fn_in,                \* harness: the argument of the function applied
    fn_out                \* harness: what the function returned

vars == <<store, pc, error, tickers, i, insufficient_tickers, metadata_df,
          rs_results, valid_rs_count, df_stocks, df_columns, reports,
          fn_in, fn_out>>

-----------------------------------------------------------------------------
(* Bounds of the model *)

\* largest number of non-benchmark symbols in the library
MaxTickers == 3
\* longest column handed to calculate_rs_percentile by the function harness
MaxColumn == 5

-----------------------------------------------------------------------------
(* Program constants *)

QuarterDays == 63
MinRefDays == 20
MinTickerDays == 2
Lag1m == 20
Lag3m == 60
Lag6m == 120
IpoDays == 20
PercentileScale == 99

-----------------------------------------------------------------------------
(* float arithmetic: exact rationals n/d (d > 0, lowest terms), NaN, +inf *)

Abs(x) == IF x < 0 THEN -x ELSE x

Min(a, b) == IF a < b THEN a ELSE b

RECURSIVE GCD(_, _)
GCD(a, b) == IF b = 0 THEN a ELSE GCD(b, a % b)

Rat(n, d) ==
    LET g == GCD(Abs(n), d)
    IN  [k |-> "num", n |-> n \div g, d |-> d \div g]

NaN == [k |-> "nan", n |-> 0, d |-> 0]
Inf == [k |-> "inf", n |-> 1, d |-> 0]
Zero == Rat(0, 1)
One == Rat(1, 1)

isnan(x) == x.k = "nan"
isfinite(x) == x.k = "num"

FAdd(a, b) ==
    IF isnan(a) \/ isnan(b) THEN NaN
    ELSE IF a.k = "inf" \/ b.k = "inf" THEN Inf
    ELSE Rat(a.n * b.d + b.n * a.d, a.d * b.d)

FSub(a, b) ==
    IF isnan(a) \/ isnan(b) THEN NaN
    ELSE IF a.k = "inf" /\ b.k = "inf" THEN NaN
    ELSE IF a.k = "inf" THEN Inf
    ELSE Rat(a.n * b.d - b.n * a.d, a.d * b.d)

\* operands are >= 0 wherever an infinite one occurs
FMul(a, b) ==
    IF isnan(a) \/ isnan(b) THEN NaN
    ELSE IF a.k = "inf" \/ b.k = "inf"
         THEN IF a = Zero \/ b = Zero THEN NaN ELSE Inf
    ELSE Rat(a.n * b.n, a.d * b.d)

\* numpy division: x/0 is inf (x > 0) or NaN (x = 0), never an exception
FDiv(a, b) ==
    IF isnan(a) \/ isnan(b) THEN NaN
    ELSE IF b.k = "inf" THEN (IF a.k = "inf" THEN NaN ELSE Zero)
    ELSE IF a.k = "inf" THEN Inf
    ELSE IF b.n = 0 THEN (IF a.n = 0 THEN NaN ELSE Inf)
    ELSE IF b.n > 0 THEN Rat(a.n * b.d, a.d * b.n)
    ELSE Rat(-(a.n * b.d), a.d * (-b.n))

\* a < b for values that are not NaN
FLess(a, b) ==
    IF a.k = "inf" THEN FALSE
    ELSE IF b.k = "inf" THEN TRUE
    ELSE a.n * b.d < b.n * a.d

\* numpy round: to the nearest integer, halves to the even one.  On
\* rank / max_rank * 99 the float computation rounds to the same integer as
\* this exact one for every max_rank below 18.
FRound(a) ==
    IF ~isfinite(a) THEN a
    ELSE LET fl == a.n \div a.d
             twice == 2 * (a.n - fl * a.d)
         IN  IF twice > a.d THEN Rat(fl + 1, 1)
             ELSE IF twice < a.d THEN Rat(fl, 1)
             ELSE IF fl % 2 = 0 THEN Rat(fl, 1) ELSE Rat(fl + 1, 1)

RECURSIVE FSum(_, _)
\* Python's sum(): 0 + s[1] + ... + s[k]
FSum(s, k) == IF k = 0 THEN Zero ELSE FAdd(FSum(s, k - 1), s[k])

-----------------------------------------------------------------------------
(* pandas Series helpers *)

dropna(s) == SelectSeq(s, LAMBDA x : ~isnan(x))

\* Series.pct_change(): s[j]/s[j-1] - 1, the first entry undefined
pct_change(s) ==
    [j \in 1..Len(s) |-> IF j = 1 THEN NaN ELSE FSub(FDiv(s[j], s[j - 1]), One)]

RECURSIVE Product(_, _, _)
\* s[lo] * ... * s[hi].  On factors >= 0 the product does not depend on how
\* it is bracketed (it is NaN exactly when a 0 and an inf both occur), so
\* halving the range yields the running product that cumprod computes.
Product(s, lo, hi) ==
    IF lo = hi THEN s[lo]
    ELSE LET mid == (lo + hi) \div 2
         IN  FMul(Product(s, lo, mid), Product(s, mid + 1, hi))

\* Series.cumprod().iloc[-1]
cumprod_last(s) == Product(s, 1, Len(s))

\* closes[:-k]
DropLast(s, k) == SubSeq(s, 1, Len(s) - k)

-----------------------------------------------------------------------------
(* The scoring functions *)

\* closes[-min(len(closes), days):]
Window(closes, days) ==
    SubSeq(closes, Len(closes) - Min(Len(closes), days) + 1, Len(closes))

\* (pct_change + 1).cumprod().iloc[-1] - 1, or NaN when pct_change is empty
Compound(changes) ==
    IF changes = <<>> THEN NaN
    ELSE FSub(cumprod_last([j \in 1..Len(changes) |-> FAdd(changes[j], One)]), One)

\* the figure of one window
WindowPerf(available_data) ==
    IF Len(available_data) < 1 THEN NaN
    ELSE IF Len(available_data) = 1 THEN Zero
    ELSE Compound(dropna(pct_change(available_data)))

quarters_perf(closes, n) == WindowPerf(Window(closes, n * QuarterDays))

BaseWeights == <<Rat(4, 10), Rat(2, 10), Rat(2, 10), Rat(2, 10)>>

\* weights = [w / total_weight for w in weights] if total_weight > 0 else weights
Renormalize(weights, total_weight) ==
    IF FLess(Zero, total_weight)
    THEN [j \in 1..Len(weights) |-> FDiv(weights[j], total_weight)]
    ELSE weights

\* sum(w * p for w, p in zip(weights, valid_perfs))
WeightedSum(weights, valid_perfs) ==
    FSum([j \in 1..Min(Len(weights), Len(valid_perfs)) |->
             FMul(weights[j], valid_perfs[j])],
         Min(Len(weights), Len(valid_perfs)))

\* [0.4, 0.2, 0.2, 0.2][:len(valid_perfs)], renormalized
SlicedWeights(weights) == Renormalize(weights, FSum(weights, Len(weights)))

\* strength() from the figures that are defined
Blend(valid_perfs) ==
    IF valid_perfs = <<>> THEN NaN
    ELSE WeightedSum(SlicedWeights(SubSeq(BaseWeights, 1, Len(valid_perfs))),
                     valid_perfs)

strength(closes) == Blend(dropna([n \in 1..4 |-> quarters_perf(closes, n)]))

\* relative_strength() from the two strength scores
StrengthRatio(rs_stock, rs_ref) ==
    IF isnan(rs_stock) \/ isnan(rs_ref) THEN NaN
    ELSE FMul(FDiv(FAdd(One, rs_stock), FAdd(One, rs_ref)), Rat(100, 1))

relative_strength(closes, closes_ref) ==
    StrengthRatio(strength(closes), strength(closes_ref))

\* rank(method="max"): ties share the higher rank
rank_max(rs_values, j) ==
    Cardinality({m \in 1..Len(rs_values) :
                    ~isnan(rs_values[m]) /\ ~FLess(rs_values[j], rs_values[m])}) - 1

\* Series.rank(method="min") of entry j among the defined entries, less 1
rank_min(rs_values, j) ==
    Cardinality({m \in 1..Len(rs_values) :
                    ~isnan(rs_values[m]) /\ FLess(rs_values[m], rs_values[j])})

\* the largest member of a non-empty set of naturals
SetMax(S) == CHOOSE r \in S : \A q \in S : q <= r

\* ranks.max()
MaxRank(rs_values) ==
    SetMax({rank_min(rs_values, j) :
               j \in {m \in 1..Len(rs_values) : ~isnan(rs_values[m])}})

\* (ranks / ranks.max() * 99).round(), on the defined entries
ScaleRanks(rs_values, max_rank) ==
    [j \in 1..Len(rs_values) |->
        IF isnan(rs_values[j]) THEN NaN
        ELSE FRound(FMul(FDiv(Rat(rank_min(rs_values, j), 1), Rat(max_rank, 1)),
                         Rat(PercentileScale, 1)))]

\* .astype(int) raises on a value that is not finite; otherwise the
\* percentiles are written over the NaN-filled result
AsTypeInt(rs_values, percentiles) ==
    IF \E j \in 1..Len(rs_values) : ~isnan(rs_values[j]) /\ ~isfinite(percentiles[j])
    THEN [raised |-> "IntCastingNaNError", result |-> <<>>]
    ELSE [raised |-> "", result |-> percentiles]

\* the Series returned, or the exception raised
calculate_rs_percentile(rs_values) ==
    IF dropna(rs_values) = <<>>
    THEN [raised |-> "", result |-> [j \in 1..Len(rs_values) |-> NaN]]
    ELSE AsTypeInt(rs_values, ScaleRanks(rs_values, MaxRank(rs_values)))

-----------------------------------------------------------------------------
(* The price library *)

\* --reference-ticker
reference_ticker == 0

P(x) == Rat(x, 1)

Rep(v, n) == [j \in 1..n |-> v]

\* The close series the library can hold, by name.  An undefined close
\* occurs only as a trailing run, where pct_change yields the same figures
\* whether or not the installed pandas pads undefined values first.
Data ==
    [ empty    |-> <<>>,
      one      |-> <<P(100)>>,
      short19  |-> Rep(P(100), 19),
      flat25   |-> Rep(P(100), 25),
      up25     |-> <<P(90)>> \o Rep(P(100), 19) \o Rep(P(110), 5),
      wipeout25 |-> Rep(P(100), 24) \o <<P(0)>>,
      long130  |-> <<P(50)>> \o Rep(P(100), 69) \o Rep(P(120), 60),
      gap130   |-> <<P(80), P(90)>> \o Rep(P(100), 65) \o Rep(NaN, 63) ]

\* what the library holds for a non-benchmark symbol ("fail": every read raises)
TickerEntries == {"fail", "empty", "one", "flat25", "up25", "long130", "gap130"}

\* what it holds for the benchmark ("absent": not among the symbols)
RefEntries == {"absent", "fail", "short19", "flat25", "wipeout25", "long130"}

\* lib.read(ticker) raises
ReadFails(ticker) == store[ticker] = "fail"

\* the close column of lib.read(ticker).data
Closes(ticker) == Data[store[ticker]]

\* lib.list_symbols(): the benchmark, when present, is listed second
ListSymbols ==
    LET n == Cardinality(DOMAIN store) - 1
        order == [j \in 1..(n + 1) |->
                    IF n = 0 THEN 0 ELSE IF j = 1 THEN 1 ELSE IF j = 2 THEN 0 ELSE j - 1]
    IN  SelectSeq(order, LAMBDA t : store[t] # "absent")

-----------------------------------------------------------------------------
(* main(): the values it computes *)

\* (rs, rs_1m, rs_3m, rs_6m) of a series with at least two closes
ScoreRow(closes, ref_closes) ==
    << relative_strength(closes, ref_closes),
       IF Len(closes) > Lag1m
          THEN relative_strength(DropLast(closes, Lag1m), DropLast(ref_closes, Lag1m))
          ELSE NaN,
       IF Len(closes) > Lag3m
          THEN relative_strength(DropLast(closes, Lag3m), DropLast(ref_closes, Lag3m))
          ELSE NaN,
       IF Len(closes) > Lag6m
          THEN relative_strength(DropLast(closes, Lag6m), DropLast(ref_closes, Lag6m))
          ELSE NaN >>

\* ScoreRow over the series the library can hold, computed once
ScoreTable ==
    [e \in DOMAIN Data |-> [r \in DOMAIN Data |-> ScoreRow(Data[e], Data[r])]]

NaNRow == <<NaN, NaN, NaN, NaN>>

\* the threshold off by one
RefInsufficientBelow(ref_closes) == Len(ref_closes) < MinRefDays - 1

\* the benchmark has too little data
RefInsufficient(ref_closes) == Len(ref_closes) < MinRefDays

\* the loop passes over no symbol
SkipsNothing(ticker) == FALSE

\* the per-ticker loop passes over this symbol
SkipsTicker(ticker) == ticker = reference_ticker

\* the loop body's result for a ticker: the four RS values appended
TickerScores(ticker) ==
    IF ReadFails(ticker) THEN NaNRow
    ELSE IF Len(Closes(ticker)) < MinTickerDays THEN NaNRow
    ELSE ScoreTable[store[ticker]][store[reference_ticker]]

-----------------------------------------------------------------------------
(* main(): the result frame *)

Columns == 1..4   \* Relative Strength, 1 Month Ago, 3 Months Ago, 6 Months Ago

\* the metadata file's entries, when it is a valid one: symbol 1 is an ETF,
\* symbol 2 a stock, the other symbols are not in the file
MetaType(t) == IF t = 1 THEN "ETF" ELSE IF t = 2 THEN "stock" ELSE "NA"
MetaSector(t) == IF t = 1 THEN "Funds" ELSE IF t = 2 THEN "Technology" ELSE "NA"
MetaIndustry(t) == IF t = 1 THEN "Index Fund" ELSE IF t = 2 THEN "Software" ELSE "NA"

\* one row of df_stocks built from rs_results[j] and the percentile columns
FrameRow(j, pct) ==
    [ Ticker |-> rs_results[j][1],
      RS |-> rs_results[j][2],
      Pct |-> [c \in Columns |-> pct[c].result[j]],
      Rank |-> 0, IPO |-> "", Type |-> "NA", Sector |-> "NA", Industry |-> "NA" ]

\* sort_values(..., ascending=True, na_position="last")
SortedAscending(sorted) ==
    \A a, b \in 1..Len(sorted) :
        a < b =>
            LET pa == sorted[a].Pct[1]
                pb == sorted[b].Pct[1]
            IN  \/ isnan(pb)
                \/ ~isnan(pa) /\ ~FLess(pb, pa)

\* sort_values("Relative Strength Percentile", ascending=False, na_position="last"):
\* sorted is an ordering of rows the sort may produce
SortedByPercentile(sorted) ==
    \A a, b \in 1..Len(sorted) :
        a < b =>
            LET pa == sorted[a].Pct[1]
                pb == sorted[b].Pct[1]
            IN  \/ isnan(pb)
                \/ ~isnan(pa) /\ ~FLess(pa, pb)

Orderings(n) == {f \in [1..n -> 1..n] : \A a, b \in 1..n : f[a] = f[b] => a = b}

-----------------------------------------------------------------------------
(* main(): its steps *)

Init ==
    /\ \E n \in 0..MaxTickers, r \in RefEntries :
         \E f \in [1..n -> TickerEntries] :
            store = [t \in 0..n |-> IF t = reference_ticker THEN r ELSE f[t]]
    /\ pc = "load"
    /\ error = ""
    /\ tickers = <<>>
    /\ i = 1
    /\ insufficient_tickers = <<>>
    /\ metadata_df = "unread"
    /\ rs_results = <<>>
    /\ valid_rs_count = 0
    /\ df_stocks = <<>>
    /\ df_columns = {}
    /\ reports = {}
    /\ fn_in = <<>>
    /\ fn_out = <<>>

\* sys.exit(1) after an error message
Exit(message) ==
    /\ pc' = "exit"
    /\ error' = message

\* an exception leaves main()
Raise(exception) ==
    /\ pc' = "crashed"
    /\ error' = exception

\* lines 127-133: load_arctic_db returns None when the store cannot be opened
LoadDb ==
    /\ pc = "load"
    /\ \E opened \in BOOLEAN :
          IF opened
          THEN /\ tickers' = ListSymbols
               /\ pc' = "find_ref"
               /\ UNCHANGED error
          ELSE /\ Exit("Failed to load ArcticDB")
               /\ UNCHANGED tickers
    /\ UNCHANGED <<store, i, insufficient_tickers, metadata_df, rs_results,
                   valid_rs_count, df_stocks, df_columns, reports, fn_in, fn_out>>

\* lines 135-138
FindReference ==
    /\ pc = "find_ref"
    /\ IF \E j \in 1..Len(tickers) : tickers[j] = reference_ticker
       THEN pc' = "check_ref" /\ UNCHANGED error
       ELSE Exit("Reference ticker not found")
    /\ UNCHANGED <<store, tickers, i, insufficient_tickers, metadata_df, rs_results,
                   valid_rs_count, df_stocks, df_columns, reports, fn_in, fn_out>>

\* lines 140-146: the read is outside any try
ValidateReference ==
    /\ pc = "check_ref"
    /\ IF ReadFails(reference_ticker) THEN Raise("RetrievalError")
       ELSE IF RefInsufficient(Closes(reference_ticker))
            THEN Exit("Not enough reference ticker data")
       ELSE pc' = "precheck" /\ UNCHANGED error
    /\ UNCHANGED <<store, tickers, i, insufficient_tickers, metadata_df, rs_results,
                   valid_rs_count, df_stocks, df_columns, reports, fn_in, fn_out>>

\* lines 148-160: the whole pre-check loop
PreCheck ==
    /\ pc = "precheck"
    /\ insufficient_tickers' =
          SelectSeq(tickers, LAMBDA t : /\ t # reference_ticker
                                        /\ \/ ReadFails(t)
                                           \/ Len(Closes(t)) < 1)
    /\ pc' = "metadata"
    /\ UNCHANGED <<store, error, tickers, i, metadata_df, rs_results,
                   valid_rs_count, df_stocks, df_columns, reports, fn_in, fn_out>>

\* What --metadata-file names: nothing (or a missing file); a file the handler
\* of lines 196-198 or the check of line 193 rejects (invalid JSON, a scalar,
\* a price that is no number, no entries); a file whose entry is not an
\* object or whose Price is null (AttributeError, TypeError: not caught);
\* a valid file.
MetadataFiles == {"none", "rejected", "bad_entry", "valid"}

\* lines 162-198
LoadMetadata ==
    /\ pc = "metadata"
    /\ \E metadata_file \in MetadataFiles :
          CASE metadata_file = "none" ->
                  metadata_df' = "empty" /\ pc' = "loop" /\ UNCHANGED error
            [] metadata_file = "rejected" ->
                  metadata_df' = "rejected" /\ pc' = "loop" /\ UNCHANGED error
            [] metadata_file = "bad_entry" ->
                  metadata_df' = "bad_entry" /\ Raise("MetadataError")
            [] metadata_file = "valid" ->
                  metadata_df' = "loaded" /\ pc' = "loop" /\ UNCHANGED error
    /\ UNCHANGED <<store, tickers, i, insufficient_tickers, rs_results,
                   valid_rs_count, df_stocks, df_columns, reports, fn_in, fn_out>>

\* metadata_df.empty
MetadataEmpty == metadata_df # "loaded"

\* lines 213, 227-229 and 232: the row appended and the count of defined RS
AppendScores(ticker, scores) ==
    /\ rs_results' = Append(rs_results, <<ticker, scores>>)
    /\ valid_rs_count' = IF isnan(scores[1]) THEN valid_rs_count
                         ELSE valid_rs_count + 1

\* lines 206-233: one iteration of the per-ticker loop
ProcessTicker ==
    /\ pc = "loop"
    /\ i <= Len(tickers)
    /\ IF SkipsTicker(tickers[i])
       THEN UNCHANGED <<rs_results, valid_rs_count>>
       ELSE AppendScores(tickers[i], TickerScores(tickers[i]))
    /\ i' = i + 1
    /\ UNCHANGED <<store, pc, error, tickers, insufficient_tickers, metadata_df,
                   df_stocks, df_columns, reports, fn_in, fn_out>>

\* lines 235-238: the frame and its four percentile columns
RankUniverse ==
    /\ pc = "loop"
    /\ i > Len(tickers)
    /\ LET pct == [c \in Columns |->
                     calculate_rs_percentile(
                        [j \in 1..Len(rs_results) |-> rs_results[j][2][c]])]
       IN  IF \E c \in Columns : pct[c].raised # ""
           THEN /\ Raise("IntCastingNaNError")
                /\ UNCHANGED <<df_stocks, df_columns>>
           ELSE /\ df_stocks' = [j \in 1..Len(rs_results) |-> FrameRow(j, pct)]
                /\ df_columns' = {"Ticker", "RS", "Pct"}
                /\ pc' = "merge"
                /\ UNCHANGED error
    /\ UNCHANGED <<store, tickers, i, insufficient_tickers, metadata_df, rs_results,
                   valid_rs_count, reports, fn_in, fn_out>>

\* lines 240-250
MergeMetadata ==
    /\ pc = "merge"
    /\ IF MetadataEmpty
       THEN UNCHANGED <<df_stocks, df_columns>>
       ELSE /\ df_stocks' = [j \in 1..Len(df_stocks) |->
                               [df_stocks[j] EXCEPT
                                  !.Type = MetaType(df_stocks[j].Ticker),
                                  !.Sector = MetaSector(df_stocks[j].Ticker),
                                  !.Industry = MetaIndustry(df_stocks[j].Ticker)]]
            /\ df_columns' = df_columns \cup {"Price", "Sector", "Industry", "Type"}
    /\ IF df_stocks = <<>>
       THEN Exit("No RS results calculated")
       ELSE pc' = "sort" /\ UNCHANGED error
    /\ UNCHANGED <<store, tickers, i, insufficient_tickers, metadata_df, rs_results,
                   valid_rs_count, reports, fn_in, fn_out>>

\* lines 252-253: the sort is not stable, so equal percentiles take any order
SortAndRank ==
    /\ pc = "sort"
    /\ \E perm \in Orderings(Len(df_stocks)) :
          LET sorted == [j \in 1..Len(df_stocks) |-> df_stocks[perm[j]]]
          IN  /\ SortedByPercentile(sorted)
              /\ df_stocks' = [j \in 1..Len(sorted) |-> [sorted[j] EXCEPT !.Rank = j]]
    /\ df_columns' = df_columns \cup {"Rank"}
    /\ pc' = "ipo"
    /\ UNCHANGED <<store, error, tickers, i, insufficient_tickers, metadata_df,
                   rs_results, valid_rs_count, reports, fn_in, fn_out>>

\* line 256: every ticker of the frame is read again, outside any try
FlagIpo ==
    /\ pc = "ipo"
    /\ IF \E j \in 1..Len(df_stocks) : ReadFails(df_stocks[j].Ticker)
       THEN /\ Raise("TickerReadError")
            /\ UNCHANGED <<df_stocks, df_columns>>
       ELSE /\ df_stocks' = [j \in 1..Len(df_stocks) |->
                               [df_stocks[j] EXCEPT
                                  !.IPO = IF Len(Closes(df_stocks[j].Ticker)) < IpoDays
                                          THEN "Yes" ELSE "No"]]
            /\ df_columns' = df_columns \cup {"IPO"}
            /\ pc' = "etf"
            /\ UNCHANGED error
    /\ UNCHANGED <<store, tickers, i, insufficient_tickers, metadata_df, rs_results,
                   valid_rs_count, reports, fn_in, fn_out>>

\* lines 258-259: df_stocks["Type"] raises KeyError when no metadata was merged
OverrideEtf ==
    /\ pc = "etf"
    /\ IF "Type" \notin df_columns
       THEN /\ Raise("KeyError")
            /\ UNCHANGED df_stocks
       ELSE /\ df_stocks' = [j \in 1..Len(df_stocks) |->
                               IF df_stocks[j].Type = "ETF"
                               THEN [df_stocks[j] EXCEPT !.Industry = "ETF", !.Sector = "ETF"]
                               ELSE df_stocks[j]]
            /\ pc' = "report"
            /\ UNCHANGED error
    /\ UNCHANGED <<store, tickers, i, insufficient_tickers, metadata_df, rs_results,
                   valid_rs_count, df_columns, reports, fn_in, fn_out>>

\* lines 261-304: the three files, then the closing messages
WriteReports ==
    /\ pc = "report"
    /\ reports' = {"rs_stocks.csv", "rs_industries.csv", "RSRATING.csv"}
    /\ pc' = "done"
    /\ UNCHANGED <<store, error, tickers, i, insufficient_tickers, metadata_df,
                   rs_results, valid_rs_count, df_stocks, df_columns, fn_in, fn_out>>

Next ==
    \/ LoadDb
    \/ FindReference
    \/ ValidateReference
    \/ PreCheck
    \/ LoadMetadata
    \/ ProcessTicker
    \/ RankUniverse
    \/ MergeMetadata
    \/ SortAndRank
    \/ FlagIpo
    \/ OverrideEtf
    \/ WriteReports

Spec == Init /\ [][Next]_vars

-----------------------------------------------------------------------------
(* The scoring functions applied on their own *)

\* the RS values a column can hold
ColumnValues == {NaN, P(90), P(100), P(110), Inf}

InputColumns == UNION {[1..n -> ColumnValues] : n \in 0..MaxColumn}

InitFn ==
    /\ store = <<>>
    /\ error = ""
    /\ tickers = <<>>
    /\ i = 1
    /\ insufficient_tickers = <<>>
    /\ metadata_df = "unread"
    /\ rs_results = <<>>
    /\ valid_rs_count = 0
    /\ df_stocks = <<>>
    /\ df_columns = {}
    /\ reports = {}
    /\ fn_out = <<>>
    /\ \/ pc = "fn_rank" /\ fn_in \in InputColumns
       \/ pc = "fn_score" /\ fn_in \in (DOMAIN Data) \X (DOMAIN Data)

ApplyPercentile ==
    /\ pc = "fn_rank"
    /\ fn_out' = calculate_rs_percentile(fn_in)
    /\ pc' = "fn_rank_done"
    /\ UNCHANGED <<store, error, tickers, i, insufficient_tickers, metadata_df,
                   rs_results, valid_rs_count, df_stocks, df_columns, reports, fn_in>>

\* relative_strength(closes, closes_ref) with the values it goes through
ApplyRelativeStrength ==
    /\ pc = "fn_score"
    /\ fn_out' = [ perfs |-> [n \in 1..4 |-> quarters_perf(Data[fn_in[1]], n)],
                   rs_stock |-> strength(Data[fn_in[1]]),
                   rs_ref |-> strength(Data[fn_in[2]]),
                   rs |-> relative_strength(Data[fn_in[1]], Data[fn_in[2]]) ]
    /\ pc' = "fn_score_done"
    /\ UNCHANGED <<store, error, tickers, i, insufficient_tickers, metadata_df,
                   rs_results, valid_rs_count, df_stocks, df_columns, reports, fn_in>>

NextFn == ApplyPercentile \/ ApplyRelativeStrength

SpecFn == InitFn /\ [][NextFn]_vars

-----------------------------------------------------------------------------
(* Properties of the scoring functions, under SpecFn *)

\* positions of the defined entries of a column
DefinedAt(col) == {j \in 1..Len(col) : ~isnan(col[j])}

\* C1: for every column whose defined entries (at least one) all share one
\* value, calculate_rs_percentile returns without raising and gives every
\* defined entry the percentile 0.
C1_DegenerateColumnRanksZero ==
    ( /\ pc = "fn_rank_done"
      /\ DefinedAt(fn_in) # {}
      /\ \A a, b \in DefinedAt(fn_in) : fn_in[a] = fn_in[b] )
    => /\ fn_out.raised = ""
       /\ \A j \in DefinedAt(fn_in) : fn_out.result[j] = Zero

TwoDistinct(col) == \E a, b \in DefinedAt(col) : col[a] # col[b]

\* C2: for every column with at least two distinct defined values, each
\* defined entry gets an integer percentile in 0..99, every minimum entry 0,
\* every maximum entry 99, equal values equal percentiles, and every
\* undefined entry no percentile.
C2_PercentilesSpanZeroTo99 ==
    (pc = "fn_rank_done" /\ TwoDistinct(fn_in))
    => /\ fn_out.raised = ""
       /\ Len(fn_out.result) = Len(fn_in)
       /\ \A j \in 1..Len(fn_in) : isnan(fn_in[j]) => isnan(fn_out.result[j])
       /\ \A j \in DefinedAt(fn_in) :
             /\ isfinite(fn_out.result[j])
             /\ fn_out.result[j].d = 1
             /\ fn_out.result[j].n \in 0..99
             /\ (\A m \in DefinedAt(fn_in) : ~FLess(fn_in[m], fn_in[j]))
                   => fn_out.result[j] = Zero
             /\ (\A m \in DefinedAt(fn_in) : ~FLess(fn_in[j], fn_in[m]))
                   => fn_out.result[j] = P(99)
       /\ \A a, b \in DefinedAt(fn_in) :
             fn_in[a] = fn_in[b] => fn_out.result[a] = fn_out.result[b]

\* a ranked column with an undefined entry, a tie, and a percentile strictly
\* between 0 and 99
C2_Witness ==
    /\ pc = "fn_rank_done"
    /\ TwoDistinct(fn_in)
    /\ \E j \in 1..Len(fn_in) : isnan(fn_in[j])
    /\ \E a, b \in DefinedAt(fn_in) : a # b /\ fn_in[a] = fn_in[b]
    /\ \E j \in DefinedAt(fn_in) : fn_out.result[j].n \in 1..98

\* C4: relative_strength returns undefined whenever the benchmark's strength
\* score is -1, for every defined target strength score.
C4_WipeoutBenchmarkIsUndefined ==
    ( /\ pc = "fn_score_done"
      /\ fn_out.rs_ref = Rat(-1, 1)
      /\ ~isnan(fn_out.rs_stock) )
    => isnan(fn_out.rs)

\* the base weights paired with the four figures by position, the pairs with
\* an undefined figure dropped, the rest renormalized
PositionalStrength(perfs) ==
    IF \A n \in 1..4 : isnan(perfs[n]) THEN NaN
    ELSE FDiv(FSum([n \in 1..4 |-> IF isnan(perfs[n]) THEN Zero
                                   ELSE FMul(BaseWeights[n], perfs[n])], 4),
              FSum([n \in 1..4 |-> IF isnan(perfs[n]) THEN Zero
                                   ELSE BaseWeights[n]], 4))

\* C9: strength is the position-paired, renormalized weighted sum of the
\* defined figures, and is undefined exactly when all four are undefined.
C9_StrengthPairsByPosition ==
    pc = "fn_score_done"
    => /\ fn_out.rs_stock = PositionalStrength(fn_out.perfs)
       /\ isnan(fn_out.rs_stock) <=> \A n \in 1..4 : isnan(fn_out.perfs[n])

-----------------------------------------------------------------------------
(* Properties of the run, under Spec *)

\* the benchmark is in the library, readable, with at least 20 closes
RefValid ==
    /\ store[reference_ticker] \in DOMAIN Data
    /\ Len(Closes(reference_ticker)) >= MinRefDays

\* positions of a ticker's rows in rs_results
RowsOf(t) == {j \in 1..Len(rs_results) : rs_results[j][1] = t}

\* the per-ticker loop has run to its end
LoopEnded == tickers # <<>> /\ i > Len(tickers)

OtherTickers == DOMAIN store \ {reference_ticker}

\* C3: with a valid benchmark, a ticker whose every read raises gets a row
\* with all four RS fields undefined and no percentile, and its failure never
\* ends the run.
C3_RetrievalFailureIsolated ==
    \A t \in OtherTickers :
        (RefValid /\ ReadFails(t))
        => /\ ~(pc = "crashed" /\ error = "TickerReadError")
           /\ LoopEnded => \E j \in RowsOf(t) : rs_results[j][2] = NaNRow
           /\ \A j \in 1..Len(df_stocks) :
                 df_stocks[j].Ticker = t
                    => \A c \in Columns : isnan(df_stocks[j].Pct[c])

\* C5: with a valid benchmark, the row of a ticker with exactly one close
\* has a defined current RS, and its short-history flag is true.
C5_SingleCloseIsScored ==
    \A t \in OtherTickers :
        (RefValid /\ ~ReadFails(t) /\ Len(Closes(t)) = 1)
        => /\ \A j \in RowsOf(t) : ~isnan(rs_results[j][2][1])
           /\ \A j \in 1..Len(df_stocks) :
                 (df_stocks[j].Ticker = t /\ "IPO" \in df_columns)
                    => df_stocks[j].IPO = "Yes"

\* C6: with no metadata source, or one that is rejected or empty, the run
\* does not fail for want of metadata, and where it completes the metadata
\* fields of every row are empty.
C6_RunsWithoutMetadata ==
    metadata_df \in {"empty", "rejected"}
    => /\ ~(pc = "crashed" /\ error = "KeyError")
       /\ pc = "done" => \A j \in 1..Len(df_stocks) :
                            /\ df_stocks[j].Type = "NA"
                            /\ df_stocks[j].Sector = "NA"
                            /\ df_stocks[j].Industry = "NA"

\* C7: the benchmark never has a row, no ticker has two, and once the loop
\* has ended every other ticker listed has exactly one.
C7_OneRowPerTicker ==
    /\ RowsOf(reference_ticker) = {}
    /\ \A a, b \in 1..Len(rs_results) : rs_results[a][1] = rs_results[b][1] => a = b
    /\ LoopEnded =>
          \A j \in 1..Len(tickers) :
              tickers[j] # reference_ticker => Cardinality(RowsOf(tickers[j])) = 1

\* the loop has ended over a ticker that failed, one with fewer than two
\* closes and one that was scored
C7_Witness ==
    /\ LoopEnded
    /\ \E j \in 1..Len(tickers) : tickers[j] = reference_ticker
    /\ \E t \in OtherTickers : ReadFails(t) /\ RowsOf(t) # {}
    /\ \E t \in OtherTickers :
          ~ReadFails(t) /\ Len(Closes(t)) < MinTickerDays /\ RowsOf(t) # {}
    /\ \E t \in OtherTickers :
          \E j \in RowsOf(t) : ~isnan(rs_results[j][2][1])

\* the benchmark's closes were read
RefRead == store[reference_ticker] \in DOMAIN Data

\* C8: a benchmark with fewer than 20 closes ends the run with exit status 1
\* before any ticker is read, any row built or any report written; one with
\* 20 or more is never the reason the run ends.
C8_FailFastOnBenchmark ==
    /\ (RefRead /\ Len(Closes(reference_ticker)) < MinRefDays)
       => /\ pc \in {"load", "find_ref", "check_ref", "exit"}
          /\ pc = "exit" => error \in {"Failed to load ArcticDB",
                                       "Not enough reference ticker data"}
          /\ insufficient_tickers = <<>>
          /\ rs_results = <<>>
          /\ valid_rs_count = 0
          /\ df_stocks = <<>>
          /\ reports = {}
    /\ (RefRead /\ Len(Closes(reference_ticker)) >= MinRefDays)
       => error # "Not enough reference ticker data"

\* the run has exited on a benchmark of 19 closes
C8_Witness ==
    /\ pc = "exit"
    /\ error = "Not enough reference ticker data"
    /\ RefRead
    /\ Len(Closes(reference_ticker)) = MinRefDays - 1

\* C10: after the final sort the Rank values are exactly 1..N, one per row;
\* every row with a defined current-RS percentile is ranked ahead of every
\* row without one; among defined percentiles a smaller Rank never has a
\* smaller percentile.
C10_RankFollowsPercentile ==
    "Rank" \in df_columns
    => /\ {df_stocks[j].Rank : j \in 1..Len(df_stocks)} = 1..Len(df_stocks)
       /\ \A a, b \in 1..Len(df_stocks) :
             LET ra == df_stocks[a]
                 rb == df_stocks[b]
             IN  /\ (~isnan(ra.Pct[1]) /\ isnan(rb.Pct[1])) => ra.Rank < rb.Rank
                 /\ (~isnan(ra.Pct[1]) /\ ~isnan(rb.Pct[1]) /\ ra.Rank < rb.Rank)
                       => ~FLess(ra.Pct[1], rb.Pct[1])

\* a ranked frame holding two different defined percentiles and an
\* undefined one
C10_Witness ==
    /\ "Rank" \in df_columns
    /\ \E a, b, c \in 1..Len(df_stocks) :
          /\ ~isnan(df_stocks[a].Pct[1])
          /\ ~isnan(df_stocks[b].Pct[1])
          /\ df_stocks[a].Pct[1] # df_stocks[b].Pct[1]
          /\ isnan(df_stocks[c].Pct[1])

=============================================================================
